---- MODULE Spec2Model ----
(***************************************************************************)
(* A model of DiamondFire.py: the Item / Block / Template JSON codec       *)
(* (src/src/df/values.py, code.py, template.py, enums.py) and the          *)
(* scope-gated CodeClient session (src/src/df/codeclient.py).              *)
(*                                                                         *)
(* Conventions                                                             *)
(*  - a Python str that the code splits, searches or compares is a         *)
(*    sequence of words (the text with its single blanks removed); the     *)
(*    spelling of every word the code looks into is in Spelling;           *)
(*  - an optional Python value (x or None) is a sequence of length <= 1;   *)
(*    an enum member is its name, and None in an enum-typed field is the   *)
(*    string "None";                                                       *)
(*  - a function that can raise returns [ok, value, error];                *)
(*  - a dict whose iteration order the code depends on is a sequence of    *)
(*    <<key, value>> pairs; other dicts are records.                       *)
(*  - code.py imports the name ItemValue from values.py, which defines     *)
(*    the class under the name Item: the model reads ItemValue as Item.    *)
(***************************************************************************)
EXTENDS Integers, Sequences, FiniteSets, TLC

VARIABLES
    _scopes,    \* session -> its authorized scope set (CodeClient._scopes)
    socket,     \* session -> [closed, inbox]: the session's websocket
    compact,    \* session -> the flag of its place builder (__place.compact)
    _api,       \* the class attribute __method._api (0: None)
    last,       \* the invocation that made the last step, and how it ended
    obj,        \* codec: the Python object under test (optional)
    json,       \* codec: the last encoding produced (optional)
    res         \* codec: the last decoding result (optional)

vars == <<_scopes, socket, compact, _api, last, obj, json, res>>
sessionVars == <<_scopes, socket, compact, _api, last>>
codecVars == <<obj, json, res>>

-----------------------------------------------------------------------------
(* Bounds *)

MaxSessions == 2
MaxInbox == 1

-----------------------------------------------------------------------------
(* Python values *)

None == "None"

Ok(v) == [ok |-> TRUE, value |-> v, error |-> "none"]
Raise(e) == [ok |-> FALSE, value |-> <<>>, error |-> e]

\* the spelling of the words the code searches or unpacks
Spelling ==
    [ auth |-> <<"a","u","t","h">>,
      authorized |-> <<"a","u","t","h","o","r","i","z","e","d">>,
      invalid |-> <<"i","n","v","a","l","i","d">>,
      token |-> <<"t","o","k","e","n">>,
      not |-> <<"n","o","t">>,
      creative |-> <<"c","r","e","a","t","i","v","e">>,
      mode |-> <<"m","o","d","e">>,
      inventory |-> <<"i","n","v","e","n","t","o","r","y">>,
      movement |-> <<"m","o","v","e","m","e","n","t">>,
      id |-> <<"i","d">>,
      block |-> <<"b","l","o","c","k">>,
      action |-> <<"a","c","t","i","o","n">>,
      args |-> <<"a","r","g","s">>,
      target |-> <<"t","a","r","g","e","t">>,
      data |-> <<"d","a","t","a">>,
      attribute |-> <<"a","t","t","r","i","b","u","t","e">>,
      direct |-> <<"d","i","r","e","c","t">>,
      type |-> <<"t","y","p","e">>,
      default |-> <<"d","e","f","a","u","l","t">>,
      read_plot |-> <<"r","e","a","d","_","p","l","o","t">>,
      write_code |-> <<"w","r","i","t","e","_","c","o","d","e">>,
      clear_plot |-> <<"c","l","e","a","r","_","p","l","o","t">>,
      t0k3n |-> <<"t","0","k","3","n">>,
      dev |-> <<"d","e","v">>,
      basic |-> <<"b","a","s","i","c">> ]

\* needle in word, for two spellings
IsSubstring(needle, hay) ==
    \E i \in 1..(Len(hay) - Len(needle) + 1) :
        SubSeq(hay, i, i + Len(needle) - 1) = needle

\* Python's `word in text` for a word without blanks
StrIn(word, text) ==
    \E i \in DOMAIN text : IsSubstring(Spelling[word], Spelling[text[i]])

\* an ordered dict: a sequence of <<key, value>> pairs
Keys(d) == [i \in DOMAIN d |-> d[i][1]]
Has(d, k) == \E i \in DOMAIN d : d[i][1] = k
Get(d, k) == d[CHOOSE i \in DOMAIN d : d[i][1] = k][2]
Put(d, k, v) ==
    IF Has(d, k)
    THEN [i \in DOMAIN d |-> IF d[i][1] = k THEN <<k, v>> ELSE d[i]]
    ELSE Append(d, <<k, v>>)

\* a record with one more key
RecPut(r, k, v) == [x \in DOMAIN r \cup {k} |-> IF x = k THEN v ELSE r[x]]

-----------------------------------------------------------------------------
(* enums.py *)

CodeBlockCategory ==
    [ PLAYER_ACTION |-> "player_action", IF_PLAYER |-> "if_player",
      START_PROCESS |-> "start_process", CALL_FUNCTION |-> "call_func",
      CONTROL |-> "control", SET_VARIABLE |-> "set_var",
      ENTITY_EVENT |-> "entity_event", PLAYER_EVENT |-> "event",
      FUNCTION |-> "func", IF_ENTITY |-> "if_entity",
      ENTITY_ACTION |-> "entity_action", IF_VARIABLE |-> "if_var",
      SELECT_OBJECT |-> "select_obj", GAME_ACTION |-> "game_action",
      PROCESS |-> "process", REPEAT |-> "repeat", IF_GAME |-> "if_game" ]
    @@ ("ELSE" :> "else")

Selection ==
    [ SELECTION |-> "Selection", DEFAULT |-> "Default", KILLER |-> "Killer",
      DAMAGER |-> "Damager", VICTIM |-> "Victim", SHOOTER |-> "Shooter",
      PROJECTILE |-> "Projectile", LAST_ENTITY |-> "LastEntity",
      ALL_PLAYERS |-> "AllPlayers", ALL_ENTITIES |-> "AllEntities",
      ALL_MOBS |-> "AllMobs", AUTO |-> "" ]

VariableScope ==
    [ GAME |-> "unsaved", SAVED |-> "saved", LINE |-> "line" ]
    @@ ("LOCAL" :> "local")

DataType ==
    [ STRING |-> "txt", TEXT |-> "comp", NUMBER |-> "num", LOCATION |-> "loc",
      VECTOR |-> "vec", SOUND |-> "snd", PARTICLE |-> "part", POTION |-> "pot",
      ITEM |-> "item", ANY |-> "any", LIST |-> "list", DICTIONARY |-> "dict" ]
    @@ ("VARIABLE" :> "var")

PlotSize ==
    [ BASIC |-> "basic", LARGE |-> "large", MASSIVE |-> "massive", MEGA |-> "mega" ]

\* the member with that value; the loop falls off its end and returns None
get_from_value(enum, value) ==
    IF \E m \in DOMAIN enum : enum[m] = value
    THEN CHOOSE m \in DOMAIN enum : enum[m] = value
    ELSE None

-----------------------------------------------------------------------------
(* values.py: the Item classes *)

\* Item.__init__ and the subclasses' __init__: an Item is a record of its fields
String(value, slot) == [id |-> "txt", slot |-> slot, value |-> value]
Text(value, slot) == [id |-> "comp", slot |-> slot, value |-> value]
Number(value, slot) == [id |-> "num", slot |-> slot, value |-> value]
Location(x, y, z, pitch, yaw, slot) ==
    [id |-> "loc", slot |-> slot, x |-> x, y |-> y, z |-> z, pitch |-> pitch, yaw |-> yaw]
Vector(x, y, z, slot) == [id |-> "vec", slot |-> slot, x |-> x, y |-> y, z |-> z]
Sound(sound, pitch, volume, custom_sound, slot) ==
    [id |-> "snd", slot |-> slot, sound |-> sound, pitch |-> pitch,
     volume |-> volume, custom |-> custom_sound]
ParticleData(color, color_variation, fade_color, size, size_variation, motion, motion_variation, material, roll) ==
    [color |-> color, color_variation |-> color_variation, fade_color |-> fade_color,
     size |-> size, size_variation |-> size_variation, motion |-> motion,
     motion_variation |-> motion_variation, material |-> material, roll |-> roll]
Particle(particle, spread, amount, data, slot) ==
    [id |-> "part", slot |-> slot, particle |-> particle, amount |-> amount,
     spread |-> spread, data |-> data]
Potion(effect, duration, amplifier, slot) ==
    [id |-> "pot", slot |-> slot, effect |-> effect, duration |-> duration,
     amplifier |-> amplifier]
Variable(name, scope, slot) == [id |-> "var", slot |-> slot, name |-> name, scope |-> scope]
GameValue(type, selection, slot) ==
    [id |-> "g_val", slot |-> slot, type |-> type, selection |-> selection]
Parameter(name, type, plural, default, description, note, slot) ==
    [id |-> "pn_el", slot |-> slot, name |-> name, type |-> type, plural |-> plural,
     default |-> default, description |-> description, note |-> note]
BlockTag(tag, option, slot) == [id |-> "bl_tag", slot |-> slot, tag |-> tag, option |-> option]

\* str.upper() and str.lower() on the material names of the model
CaseForms ==
    { [lower |-> "air", upper |-> "AIR", forms |-> {"air", "AIR"}],
      [lower |-> "stone", upper |-> "STONE", forms |-> {"stone", "STONE", "Stone"}] }
Upper(s) == (CHOOSE f \in CaseForms : s \in f.forms).upper
Lower(s) == (CHOOSE f \in CaseForms : s \in f.forms).lower

\* float(x) of a number: the number of the same value (Python compares 1 == 1.0)
Float(x) == x

\* truthiness of an optional str: None and "" are false
Truthy(opt) == opt # <<>> /\ opt[1] # ""

ParticleData_to_json(d) ==
    [rgb |-> d.color, colorVariation |-> d.color_variation, rgb_fade |-> d.fade_color,
     size |-> d.size, sizeVariation |-> d.size_variation,
     x |-> d.motion[1], y |-> d.motion[2], z |-> d.motion[3],
     motionVariation |-> d.motion_variation, material |-> Upper(d.material),
     roll |-> d.roll]

RECURSIVE _getdata(_)
RECURSIVE Item_to_json(_, _)

Potion_getdata(self) ==
    [pot |-> self.effect,
     dur |-> IF self.duration = -1 THEN 1000000 ELSE self.duration,
     amp |-> self.amplifier - 1]

Sound_getdata(self) ==
    IF self.custom
    THEN [pitch |-> self.pitch, vol |-> self.volume, key |-> self.sound]
    ELSE [pitch |-> self.pitch, vol |-> self.volume, sound |-> self.sound]

Parameter_getdata(self) ==
    LET d0 == [name |-> self.name, type |-> DataType[self.type],
               plural |-> self.plural, optional |-> (self.default = <<>>)]
        d1 == IF self.default # <<>>
              THEN RecPut(d0, "default_value", Item_to_json(self.default[1], -1).item)
              ELSE d0
        d2 == IF Truthy(self.description)
              THEN RecPut(d1, "description", self.description[1]) ELSE d1
    IN  IF Truthy(self.note) THEN RecPut(d2, "note", self.note[1]) ELSE d2

_getdata(self) ==
    CASE self.id \in {"txt", "comp", "num"} -> [name |-> self.value]
      [] self.id = "loc" ->
            [isBlock |-> FALSE,
             loc |-> [x |-> self.x, y |-> self.y, z |-> self.z,
                      pitch |-> self.pitch, yaw |-> self.yaw]]
      [] self.id = "vec" -> [x |-> self.x, y |-> self.y, z |-> self.z]
      [] self.id = "snd" -> Sound_getdata(self)
      [] self.id = "part" ->
            [particle |-> self.particle,
             cluster |-> [amount |-> self.amount, horizontal |-> self.spread[1],
                          vertical |-> self.spread[2]],
             data |-> ParticleData_to_json(self.data)]
      [] self.id = "pot" -> Potion_getdata(self)
      [] self.id = "var" -> [name |-> self.name, scope |-> VariableScope[self.scope]]
      [] self.id = "g_val" -> [type |-> self.type, target |-> Selection[self.selection]]
      [] self.id = "pn_el" -> Parameter_getdata(self)
      [] self.id = "bl_tag" -> [option |-> self.option, tag |-> self.tag]

Item_to_json(self, index) ==
    [item |-> [id |-> self.id, data |-> _getdata(self)],
     slot |-> IF self.slot = -1 THEN index ELSE self.slot]

\* dict[key] for each key of ks would not raise KeyError
HasKeys(d, ks) == ks \subseteq DOMAIN d

String_from_json(d, slot) ==
    IF HasKeys(d, {"name"}) THEN Ok(String(d.name, slot)) ELSE Raise("KeyError")
Text_from_json(d, slot) ==
    IF HasKeys(d, {"name"}) THEN Ok(Text(d.name, slot)) ELSE Raise("KeyError")
Number_from_json(d, slot) ==
    IF HasKeys(d, {"name"}) THEN Ok(Number(d.name, slot)) ELSE Raise("KeyError")

Location_from_json(d, slot) ==
    IF HasKeys(d, {"loc"}) /\ HasKeys(d.loc, {"x", "y", "z", "pitch", "yaw"})
    THEN Ok(Location(d.loc.x, d.loc.y, d.loc.z, d.loc.pitch, d.loc.yaw, slot))
    ELSE Raise("KeyError")

Vector_from_json(d, slot) ==
    IF HasKeys(d, {"x", "y", "z"}) THEN Ok(Vector(d.x, d.y, d.z, slot))
    ELSE Raise("KeyError")

Sound_from_json(d, slot) ==
    IF "key" \in DOMAIN d
    THEN IF HasKeys(d, {"key", "pitch", "volume"})
         THEN Ok(Sound(d.key, d.pitch, d.volume, TRUE, slot))
         ELSE Raise("KeyError")
    ELSE IF HasKeys(d, {"sound", "pitch", "volume"})
         THEN Ok(Sound(d.sound, d.pitch, d.volume, FALSE, slot))
         ELSE Raise("KeyError")

ParticleData_from_json(d) ==
    IF HasKeys(d, {"rgb", "colorVariation", "rgb_fade", "size", "sizeVariation",
                   "x", "y", "z", "motionVariation", "material", "roll"})
    THEN Ok(ParticleData(d.rgb, d.colorVariation, d.rgb_fade, d.size, d.sizeVariation,
                         <<d.x, d.y, d.z>>, d.motionVariation, Lower(d.material), d.roll))
    ELSE Raise("KeyError")

Particle_from_json(d, slot) ==
    IF HasKeys(d, {"particle", "cluster", "data"})
       /\ HasKeys(d.cluster, {"horizontal", "vertical", "amount"})
    THEN LET pd == ParticleData_from_json(d.data)
         IN  IF pd.ok
             THEN Ok(Particle(d.particle,
                              <<Float(d.cluster.horizontal), Float(d.cluster.vertical)>>,
                              d.cluster.amount, pd.value, slot))
             ELSE pd
    ELSE Raise("KeyError")

\* a Potion.from_json that takes the amplifier as it is written
Potion_from_json_raw(d, slot) ==
    IF HasKeys(d, {"pot", "dur", "amp"})
    THEN Ok(Potion(d.pot, IF d.dur = 1000000 THEN -1 ELSE d.dur, d.amp, slot))
    ELSE Raise("KeyError")

Potion_from_json(d, slot) ==
    IF HasKeys(d, {"pot", "dur", "amp"})
    THEN Ok(Potion(d.pot, IF d.dur = 1000000 THEN -1 ELSE d.dur, d.amp + 1, slot))
    ELSE Raise("KeyError")

Variable_from_json(d, slot) ==
    IF HasKeys(d, {"name", "scope"})
    THEN Ok(Variable(d.name, get_from_value(VariableScope, d.scope), slot))
    ELSE Raise("KeyError")

GameValue_from_json(d, slot) ==
    IF HasKeys(d, {"type", "target"})
    THEN Ok(GameValue(d.type, get_from_value(Selection, d.target), slot))
    ELSE Raise("KeyError")

BlockTag_from_json(d, slot) ==
    IF HasKeys(d, {"tag", "option"}) THEN Ok(BlockTag(d.tag, d.option, slot))
    ELSE Raise("KeyError")

\* dict.get(key) of a str: None when the key is absent
GetOpt(d, k) == IF k \in DOMAIN d THEN <<d[k]>> ELSE <<>>

RECURSIVE Item_from_json(_)

\* the default is decoded when optional is true, and None otherwise
Parameter_default(d) ==
    IF ~d.optional THEN Ok(<<>>)
    ELSE IF "default_value" \notin DOMAIN d THEN Raise("KeyError")
    ELSE LET r == Item_from_json([item |-> d.default_value, slot |-> -1])
         IN  IF r.ok THEN Ok(<<r.value>>) ELSE r

Parameter_from_json(d, slot) ==
    IF ~HasKeys(d, {"name", "type", "plural", "optional"}) THEN Raise("KeyError")
    ELSE LET default == Parameter_default(d)
         IN  IF ~default.ok THEN default
             ELSE Ok(Parameter(d.name, get_from_value(DataType, d.type), d.plural,
                               default.value, GetOpt(d, "description"),
                               GetOpt(d, "note"), slot))

class_lookup == {"txt", "comp", "num", "var", "g_val", "loc", "vec", "snd", "part",
                 "pot", "pn_el", "bl_tag"}

Item_from_json(j) ==
    IF "slot" \notin DOMAIN j THEN Raise("MalformedItemJSONError")
    ELSE IF "item" \notin DOMAIN j THEN Raise("MalformedItemJSONError")
    ELSE IF "id" \notin DOMAIN j.item THEN Raise("MalformedItemJSONError")
    ELSE IF "data" \notin DOMAIN j.item THEN Raise("MalformedItemJSONError")
    ELSE IF j.item.id \notin class_lookup THEN Raise("MalformedItemJSONError")
    ELSE LET d == j.item.data
             slot == j.slot
         IN  CASE j.item.id = "txt" -> String_from_json(d, slot)
               [] j.item.id = "comp" -> Text_from_json(d, slot)
               [] j.item.id = "num" -> Number_from_json(d, slot)
               [] j.item.id = "var" -> Variable_from_json(d, slot)
               [] j.item.id = "g_val" -> GameValue_from_json(d, slot)
               [] j.item.id = "loc" -> Location_from_json(d, slot)
               [] j.item.id = "vec" -> Vector_from_json(d, slot)
               [] j.item.id = "snd" -> Sound_from_json(d, slot)
               [] j.item.id = "part" -> Particle_from_json(d, slot)
               [] j.item.id = "pot" -> Potion_from_json(d, slot)
               [] j.item.id = "pn_el" -> Parameter_from_json(d, slot)
               [] j.item.id = "bl_tag" -> BlockTag_from_json(d, slot)

-----------------------------------------------------------------------------
(* code.py: Bracket and CodeBlock *)

Bracket(open, repeat) == [kind |-> "Bracket", open |-> open, repeat |-> repeat]

\* extras: the **kwargs, in the order given
CodeBlock(category, action, args, selection, extras) ==
    [kind |-> "CodeBlock", category |-> category, action |-> action,
     selection |-> selection, args |-> args, extras |-> extras]

\* a bare Python int or str in an argument list
RawInt(n) == [id |-> "int", value |-> n]
RawStr(t) == [id |-> "str", value |-> t]

Bracket_to_json(self) ==
    << <<"id", "bracket">>,
       <<"direct", IF self.open THEN "open" ELSE "close">>,
       <<"type", IF self.repeat THEN "repeat" ELSE "norm">> >>

Bracket_from_json(j) ==
    IF ~Has(j, "direct") THEN Raise("MalformedCodeBlockJSONError")
    ELSE IF ~Has(j, "type") THEN Raise("MalformedCodeBlockJSONError")
    ELSE IF Get(j, "direct") \notin {"open", "close"}
         THEN Raise("MalformedCodeBlockJSONError")
    ELSE IF Get(j, "type") \notin {"norm", "repeat"}
         THEN Raise("MalformedCodeBlockJSONError")
    ELSE Ok(Bracket(Get(j, "direct") = "open", Get(j, "type") = "repeat"))

\* CodeBlock.__parse_values: bare numbers and strs become Number and String
parse_values(args) ==
    [i \in DOMAIN args |->
        IF args[i].id = "int" THEN Number(args[i].value, -1)
        ELSE IF args[i].id = "str" THEN String(args[i].value, -1)
        ELSE args[i]]

\* the loop of CodeBlock.to_json from argument i (1-based) with `tags` tags placed
RECURSIVE args_list(_, _, _, _)
args_list(self, args, i, tags) ==
    IF i > Len(args) THEN <<>>
    ELSE LET item == args[i]
             index == i - 1
         IN  IF item.id = "bl_tag"
             THEN LET convert == Item_to_json(item, 26 - tags)
                      d1 == RecPut(convert.item.data, "action",
                                   IF self.action # "" THEN self.action ELSE "dynamic")
                      d2 == RecPut(d1, "block", CodeBlockCategory[self.category])
                  IN  <<[convert EXCEPT !.item.data = d2]>>
                      \o args_list(self, args, i + 1, tags + 1)
             ELSE <<Item_to_json(item, index)>> \o args_list(self, args, i + 1, tags)

RECURSIVE PutAll(_, _)
PutAll(d, pairs) ==
    IF pairs = <<>> THEN d
    ELSE PutAll(Put(d, pairs[1][1], pairs[1][2]), Tail(pairs))

\* a to_json that writes the target of every block
CodeBlock_to_json_targeted(self) ==
    LET data == << <<"id", "block">>,
                   <<"block", CodeBlockCategory[self.category]>>,
                   <<"action", self.action>>,
                   <<"args", [items |-> args_list(self, parse_values(self.args), 1, 0)]>> >>
    IN  PutAll(Put(data, "target", Selection[self.selection]), self.extras)

CodeBlock_to_json(self) ==
    LET data == << <<"id", "block">>,
                   <<"block", CodeBlockCategory[self.category]>>,
                   <<"action", self.action>>,
                   <<"args", [items |-> args_list(self, parse_values(self.args), 1, 0)]>> >>
        data1 == IF self.selection # "AUTO"
                 THEN Put(data, "target", Selection[self.selection]) ELSE data
    IN  PutAll(data1, self.extras)

\* [Item.from_json(item) for item in items]: the first error ends it
RECURSIVE items_from_json(_)
items_from_json(items) ==
    IF items = <<>> THEN Ok(<<>>)
    ELSE LET r == Item_from_json(items[1])
         IN  IF ~r.ok THEN r
             ELSE LET rest == items_from_json(Tail(items))
                  IN  IF rest.ok THEN Ok(<<r.value>> \o rest.value) ELSE rest

\* `for k, v in json`: iterating the dict yields its keys, and each key, a str,
\* is unpacked into two names: a key that is not two characters long raises
RECURSIVE extras_loop(_, _)
extras_loop(keys, extras) ==
    IF keys = <<>> THEN Ok(extras)
    ELSE LET c == Spelling[keys[1]]
         IN  IF Len(c) # 2 THEN Raise("ValueError")
             ELSE LET k == c[1]
                      v == c[2]
                  IN  extras_loop(Tail(keys),
                                  IF k \notin {"block", "action", "target", "args"}
                                  THEN Put(extras, k, v) ELSE extras)

CodeBlock_from_json(j) ==
    IF ~Has(j, "block") THEN Raise("MalformedCodeBlockJSONError")
    ELSE IF Get(j, "block") \in {"func", "start_process", "process", "func"}
            /\ ~Has(j, "data")
         THEN Raise("MalformedCodeBlockJSONError")
    ELSE IF Get(j, "block") \notin {"func", "start_process", "process", "func"}
            /\ Get(j, "block") # "else" /\ ~Has(j, "action")
         THEN Raise("MalformedCodeBlockJSONError")
    ELSE LET block == get_from_value(CodeBlockCategory, Get(j, "block"))
             action == IF Has(j, "action") THEN Get(j, "action") ELSE ""
             target == get_from_value(Selection,
                                      IF Has(j, "target") THEN Get(j, "target") ELSE "")
             argsd == IF Has(j, "args") THEN Get(j, "args") ELSE [items |-> <<>>]
         IN  IF "items" \notin DOMAIN argsd THEN Raise("KeyError")
             ELSE LET args == items_from_json(argsd.items)
                  IN  IF ~args.ok THEN args
                      ELSE LET extras == extras_loop(Keys(j), <<>>)
                           IN  IF ~extras.ok THEN extras
                               ELSE Ok(CodeBlock(block, action, args.value, target,
                                                 extras.value))

Block_to_json(self) ==
    IF self.kind = "Bracket" THEN Bracket_to_json(self) ELSE CodeBlock_to_json(self)

Block_from_json(j) ==
    IF Has(j, "id") /\ Get(j, "id") = "block" THEN CodeBlock_from_json(j)
    ELSE IF Has(j, "id") /\ Get(j, "id") = "bracket" THEN Bracket_from_json(j)
    ELSE Raise("MalformedCodeBlockJSONError")

-----------------------------------------------------------------------------
(* template.py: Template and its envelope *)

MaxCompressed == 65535

Template(codeblocks, name) == [codeblocks |-> codeblocks, name |-> name]

\* the operand of + and +=: one Block, or a list of Blocks
OneBlock(b) == [single |-> TRUE, blocks |-> <<b>>]
BlockList(l) == [single |-> FALSE, blocks |-> l]

\* `if isinstance(code, Block): code = [code]`
AsList(code) == code.blocks

\* __add__: a new Template, without a name
Template_add(self, code) == Template(self.codeblocks \o AsList(code), <<>>)

\* __iadd__: the list of self is extended in place, and the method ends
\* without a return statement: it returns None (here the empty optional)
Template_iadd(self, code) ==
    [self |-> [self EXCEPT !.codeblocks = @ \o AsList(code)], returned |-> <<>>]

Template_to_json(self) ==
    << <<"blocks", [i \in DOMAIN self.codeblocks |-> Block_to_json(self.codeblocks[i])]>> >>

\* to_json calls __parse_values on every CodeBlock: the blocks afterwards
Template_parsed(self) ==
    [self EXCEPT !.codeblocks =
        [i \in DOMAIN self.codeblocks |->
            IF self.codeblocks[i].kind = "CodeBlock"
            THEN [self.codeblocks[i] EXCEPT !.args = parse_values(@)]
            ELSE self.codeblocks[i]]]

RECURSIVE blocks_from_json(_)
blocks_from_json(blocks) ==
    IF blocks = <<>> THEN Ok(<<>>)
    ELSE LET r == Block_from_json(blocks[1])
         IN  IF ~r.ok THEN r
             ELSE LET rest == blocks_from_json(Tail(blocks))
                  IN  IF rest.ok THEN Ok(<<r.value>> \o rest.value) ELSE rest

Template_from_json(j) ==
    IF ~Has(j, "blocks") THEN Raise("MalformedTemplateJSONError")
    ELSE LET blocks == blocks_from_json(Get(j, "blocks"))
         IN  IF blocks.ok THEN Ok(Template(blocks.value, <<>>)) ELSE blocks

\* The libraries of the envelope. Each layer wraps its input, and its inverse
\* unwraps that layer only. gzip's output has `size` bytes, a number the data
\* decides; base64 makes four characters of every three bytes, padded.
json_dumps(d) == [layer |-> "json", of |-> d]
str_encode(t) == [layer |-> "utf8", of |-> t]
gzip_compress(b, size) == [layer |-> "gzip", of |-> b, size |-> size]
b64encode(b) == [layer |-> "b64", of |-> b, len |-> 4 * ((b.size + 2) \div 3)]
Unwrap(layer, x) == IF x.layer = layer THEN Ok(x.of) ELSE Raise("ValueError")

\* a compress() that returns the envelope whatever its length
Template_compress_unchecked(self, size) ==
    Ok(b64encode(gzip_compress(str_encode(json_dumps(Template_to_json(self))), size)))

\* compress(), for a document that gzip makes `size` bytes of
Template_compress(self, size) ==
    LET compressed ==
            b64encode(gzip_compress(str_encode(json_dumps(Template_to_json(self))), size))
    IN  IF compressed.len > MaxCompressed THEN Raise("OverflowError")
        ELSE Ok(compressed)

Template_decompress(data) ==
    LET b == Unwrap("b64", data)
        g == IF b.ok THEN Unwrap("gzip", b.value) ELSE b
        t == IF g.ok THEN Unwrap("utf8", g.value) ELSE g
        d == IF t.ok THEN Unwrap("json", t.value) ELSE t
    IN  IF d.ok THEN Template_from_json(d.value) ELSE d

-----------------------------------------------------------------------------
(* codeclient.py: the session *)

\* a CCAuthScopes value is the set of its flags
CCAuthScopes == {"DEFAULT", "INVENTORY", "MOVEMENT", "READ_PLOT", "WRITE_CODE", "CLEAR_PLOT"}

\* the names request() sends and scopes() looks for, in the order of the code
ScopeOrder == <<"INVENTORY", "MOVEMENT", "READ_PLOT", "WRITE_CODE", "CLEAR_PLOT">>
ScopeName ==
    [INVENTORY |-> "inventory", MOVEMENT |-> "movement", READ_PLOT |-> "read_plot",
     WRITE_CODE |-> "write_code", CLEAR_PLOT |-> "clear_plot"]

\* `a in b` for two flag values
FlagIn(a, b) == a \subseteq b

\* the scope attribute of each method class
MethodScope ==
    [give |-> {"DEFAULT"}, token |-> {"DEFAULT"}, scopes |-> {"DEFAULT"},
     inv |-> {"INVENTORY"}, spawn |-> {"MOVEMENT"}, mode |-> {"MOVEMENT"},
     plot |-> {"READ_PLOT"}, place |-> {"WRITE_CODE"}, clear_plot |-> {"CLEAR_PLOT"}]

Sessions == 1..MaxSessions

\* the sessions constructed so far
Constructed == DOMAIN _scopes

have_scope(self, scope) == FlagIn(scope, _scopes[self])

\* TRUE when _require_scope returns, FALSE when it raises CCOutOfScopeError;
\* _api is the attribute of the class __method, which every session shares
_require_scope(method) ==
    \/ FlagIn({"DEFAULT"}, MethodScope[method])
    \/ FlagIn(MethodScope[method], _scopes[_api])

\* what the companion may answer to a command that reads what the answer says
RefusedMsgs == {<<"not", "creative", "mode">>, <<"auth">>}
RequestMsgs == {<<"auth">>, <<"authorized">>, <<"not", "creative", "mode">>}
AuthMsgs == {<<"auth">>, <<"authorized">>, <<"invalid", "token">>}
ScopeMsgs == {<<"default", "inventory", "movement", "read_plot", "write_code", "clear_plot">>}

\* socket.recv(timeout) on a socket holding `inbox`, when the companion answers
\* the request just sent with `reply`, in time or (late) after the timeout:
\* recv returns the oldest unread message, or raises TimeoutError if none
recv(inbox, reply, late) ==
    LET q == IF late THEN inbox ELSE inbox \o reply
        after == IF late THEN reply ELSE <<>>
    IN  IF q = <<>>
        THEN [timeout |-> TRUE, message |-> <<>>, inbox |-> after]
        ELSE [timeout |-> FALSE, message |-> Head(q), inbox |-> Tail(q) \o after]

\* the inputs of one recv, for a companion that answers with a message of S or
\* not at all: the answer (a sequence of at most one message), and whether it
\* comes late, after the timeout
RecvInputs(S) == {<<<<>>, FALSE>>} \cup {<<<<m>>, late>> : m \in S, late \in BOOLEAN}

\* the answers that come in time, or never
InTime(S) == {x \in RecvInputs(S) : ~x[2]}

Received(r) == [timeout |-> r.timeout, message |-> r.message]
Sent(k, words) == [socket |-> k, words |-> words, payload |-> <<>>]
SentPayload(k, words, payload) == [socket |-> k, words |-> words, payload |-> <<payload>>]

\* one call: the method, the session it was called on, its argument, how it
\* ended, the lines it wrote and what each of its recv calls made
Invocation(op, self, arg, result, lines, recvs) ==
    [op |-> op, self |-> self, arg |-> arg, result |-> result, lines |-> lines,
     recv |-> recvs]

\* the process is not stuck in a recv without timeout
Running == last.result # "blocked"

\* a give that lets the TimeoutError of recv out
soft_failure_strict(r) ==
    IF r.timeout THEN "TimeoutError"
    ELSE IF r.message = <<"not", "creative", "mode">> THEN "SendToMinecraftError"
    ELSE "return"

\* give and inv.set: silence is success, "not creative mode" is an error
soft_failure(r) ==
    IF r.timeout THEN "return"
    ELSE IF r.message = <<"not", "creative", "mode">> THEN "SendToMinecraftError"
    ELSE "return"

\* a _recv that catches the TimeoutError
must_respond_silent(r, ended) == ended

\* _recv: the TimeoutError of socket.recv is not caught, and the method ends
\* with it; otherwise the method ends as `ended`
must_respond(r, ended) == IF r.timeout THEN "TimeoutError" ELSE ended

\* the flags scopes() reads from the words of the answer
new_scopes(message) ==
    {"DEFAULT"} \cup
    {f \in DOMAIN ScopeName : \E i \in DOMAIN message : message[i] = ScopeName[f]}

\* the names request() sends for a flag value
RECURSIVE scope_list(_, _)
scope_list(requested, i) ==
    IF i > Len(ScopeOrder) THEN <<>>
    ELSE (IF FlagIn({ScopeOrder[i]}, requested) THEN <<ScopeName[ScopeOrder[i]]>> ELSE <<>>)
         \o scope_list(requested, i + 1)

\* a request() that commits on any answer
granted_any(message) == TRUE

\* request(): the answer commits the requested scopes
granted(message) == StrIn("auth", message)

\* authenticate(): the answer that starts the scope query
authenticated(message) == message = <<"auth">>

-----------------------------------------------------------------------------
(* codeclient.py: the operations. `self` is the session the caller holds;   *)
(* every method but close() and have_scope() works on _api, the session the *)
(* class attribute names.                                                   *)

SessionInit ==
    /\ _scopes = <<>>
    /\ socket = <<>>
    /\ compact = <<>>
    /\ _api = 0
    /\ last = Invocation("none", 0, <<>>, "return", <<>>, <<>>)

CodecIdle == obj = <<>> /\ json = <<>> /\ res = <<>>

\* CodeClient(): the sessions are numbered in the order of their construction
Construct(self) ==
    /\ Running
    /\ self = Len(_scopes) + 1
    /\ self <= MaxSessions
    /\ socket' = Append(socket, [closed |-> FALSE, inbox |-> <<>>])
    /\ _scopes' = Append(_scopes, {"DEFAULT"})
    /\ _api' = self
    /\ compact' = Append(compact, FALSE)
    /\ last' = Invocation("__init__", self, <<>>, "return", <<>>, <<>>)
    /\ UNCHANGED codecVars

Close(self) ==
    /\ Running
    /\ self \in Constructed
    /\ socket' = [socket EXCEPT ![self].closed = TRUE]
    /\ last' = Invocation("close", self, <<>>, "return", <<>>, <<>>)
    /\ UNCHANGED <<_scopes, compact, _api, codecVars>>

\* self._api._recv() when the companion's answer is x
_recv(x) == recv(socket[_api].inbox, x[1], x[2])

\* a method that sends `words` on the socket of _api and then calls recv once
\* with answer x; it ends with `result` and leaves `scopes` in _api._scopes
Exchange(op, self, arg, words, x, result, scopes) ==
    IF socket[_api].closed
    THEN /\ last' = Invocation(op, self, arg, "ConnectionClosed", <<>>, <<>>)
         /\ UNCHANGED <<socket, _scopes>>
    ELSE /\ Len(_recv(x).inbox) <= MaxInbox
         /\ socket' = [socket EXCEPT ![_api].inbox = _recv(x).inbox]
         /\ _scopes' = [_scopes EXCEPT ![_api] = scopes]
         /\ last' = Invocation(op, self, arg, result, <<Sent(_api, words)>>,
                               <<Received(_recv(x))>>)

\* a method that ends after its send
SendOnly(op, self, arg, line) ==
    IF socket[_api].closed
    THEN last' = Invocation(op, self, arg, "ConnectionClosed", <<>>, <<>>)
    ELSE last' = Invocation(op, self, arg, "return", <<line>>, <<>>)

\* _require_scope raised
OutOfScope(op, self, arg) ==
    last' = Invocation(op, self, arg, "CCOutOfScopeError", <<>>, <<>>)

Give(self, item, x) ==
    /\ Running
    /\ self \in Constructed
    /\ Exchange("give", self, item, <<"give", item>>, x, soft_failure(_recv(x)),
                _scopes[_api])
    /\ UNCHANGED <<compact, _api, codecVars>>

TokenGet(self, x) ==
    /\ Running
    /\ self \in Constructed
    /\ Exchange("token.get", self, <<>>, <<"token">>, x, must_respond(_recv(x), "return"),
                _scopes[_api])
    /\ UNCHANGED <<compact, _api, codecVars>>

\* scopes(): the authorized scope set becomes what the answer lists
ScopesQuery(self, x) ==
    /\ Running
    /\ self \in Constructed
    /\ Exchange("scopes", self, <<>>, <<"scopes">>, x, must_respond(_recv(x), "return"),
                IF _recv(x).timeout THEN _scopes[_api] ELSE new_scopes(_recv(x).message))
    /\ UNCHANGED <<compact, _api, codecVars>>

\* scopes.request(requested_scopes, timeout): timeout is "None" (recv waits
\* without limit: with no answer the call never returns) or "finite"
ScopesRequest(self, requested, timeout, x) ==
    /\ Running
    /\ self \in Constructed
    /\ timeout = "None" => ~x[2]
    /\ Exchange("scopes.request", self, requested,
                <<"scopes">> \o scope_list(requested, 1), x,
                IF ~_recv(x).timeout THEN "return"
                ELSE IF timeout = "None" THEN "blocked" ELSE "TimeoutError",
                IF ~_recv(x).timeout /\ granted(_recv(x).message) THEN requested
                ELSE _scopes[_api])
    /\ UNCHANGED <<compact, _api, codecVars>>

\* token.authenticate(token): x answers the token, y the scope query it may make
TokenAuthenticate(self, token, x, y) ==
    /\ Running
    /\ self \in Constructed
    /\ LET k == _api
           r == _recv(x)
           q == recv(r.inbox, y[1], y[2])
           line == Sent(k, <<"token", token>>)
       IN  IF socket[k].closed
           THEN /\ last' = Invocation("token.authenticate", self, token,
                                      "ConnectionClosed", <<>>, <<>>)
                /\ UNCHANGED <<socket, _scopes>>
           ELSE IF r.timeout \/ r.message = <<"invalid", "token">>
                   \/ ~authenticated(r.message)
           THEN /\ y = <<<<>>, FALSE>>
                /\ Len(r.inbox) <= MaxInbox
                /\ socket' = [socket EXCEPT ![k].inbox = r.inbox]
                /\ last' = Invocation("token.authenticate", self, token,
                                      must_respond(r, IF r.message = <<"invalid", "token">>
                                                      THEN "CCInvalidToken" ELSE "return"),
                                      <<line>>, <<Received(r)>>)
                /\ UNCHANGED _scopes
           ELSE /\ Len(q.inbox) <= MaxInbox
                /\ socket' = [socket EXCEPT ![k].inbox = q.inbox]
                /\ _scopes' = [_scopes EXCEPT ![k] =
                                 IF q.timeout THEN @ ELSE new_scopes(q.message)]
                /\ last' = Invocation("token.authenticate", self, token,
                                      must_respond(q, "return"),
                                      <<line, Sent(k, <<"scopes">>)>>,
                                      <<Received(r), Received(q)>>)
    /\ UNCHANGED <<compact, _api, codecVars>>

\* from_snbt and the loop over its result accept the text of a list only
from_snbt(message) ==
    IF message # <<>> /\ Head(message) = "[" /\ message[Len(message)] = "]"
    THEN Ok(SubSeq(message, 2, Len(message) - 1))
    ELSE Raise("ParseError")

InvGet(self, x) ==
    /\ Running
    /\ self \in Constructed
    /\ IF ~_require_scope("inv")
       THEN OutOfScope("inv.get", self, <<>>) /\ UNCHANGED <<socket, _scopes>>
       ELSE Exchange("inv.get", self, <<>>, <<"inv">>, x,
                     must_respond(_recv(x), IF from_snbt(_recv(x).message).ok THEN "return"
                                            ELSE from_snbt(_recv(x).message).error),
                     _scopes[_api])
    /\ UNCHANGED <<compact, _api, codecVars>>

InvSet(self, items, x) ==
    /\ Running
    /\ self \in Constructed
    /\ IF ~_require_scope("inv")
       THEN OutOfScope("inv.set", self, items) /\ UNCHANGED <<socket, _scopes>>
       ELSE Exchange("inv.set", self, items, <<"setinv", "[">> \o items \o <<"]">>, x,
                     soft_failure(_recv(x)), _scopes[_api])
    /\ UNCHANGED <<compact, _api, codecVars>>

Spawn(self) ==
    /\ Running
    /\ self \in Constructed
    /\ IF ~_require_scope("spawn") THEN OutOfScope("spawn", self, <<>>)
       ELSE SendOnly("spawn", self, <<>>, Sent(_api, <<"spawn">>))
    /\ UNCHANGED <<_scopes, socket, compact, _api, codecVars>>

\* mode.get(): an answer that names no mode falls out of the match: None
ModeGet(self, x) ==
    /\ Running
    /\ self \in Constructed
    /\ IF ~_require_scope("mode")
       THEN OutOfScope("mode.get", self, <<>>) /\ UNCHANGED <<socket, _scopes>>
       ELSE Exchange("mode.get", self, <<>>, <<"mode">>, x,
                     must_respond(_recv(x), "return"), _scopes[_api])
    /\ UNCHANGED <<compact, _api, codecVars>>

ModeSet(self, mode) ==
    /\ Running
    /\ self \in Constructed
    /\ IF ~_require_scope("mode") THEN OutOfScope("mode.set", self, mode)
       ELSE SendOnly("mode.set", self, mode, Sent(_api, <<"mode", mode>>))
    /\ UNCHANGED <<_scopes, socket, compact, _api, codecVars>>

\* [Template.decompress(t) for t in data.split("\n")]: the answer is the
\* sequence of its lines, and the first line that does not decode ends the call
RECURSIVE decompress_all(_)
decompress_all(lines) ==
    IF lines = <<>> THEN Ok(<<>>)
    ELSE LET t == Template_decompress(lines[1])
         IN  IF ~t.ok THEN t
             ELSE LET rest == decompress_all(Tail(lines))
                  IN  IF rest.ok THEN Ok(<<t.value>> \o rest.value) ELSE rest

PlotGetTemplates(self, x) ==
    /\ Running
    /\ self \in Constructed
    /\ IF ~_require_scope("plot")
       THEN OutOfScope("plot.get_templates", self, <<>>) /\ UNCHANGED <<socket, _scopes>>
       ELSE Exchange("plot.get_templates", self, <<>>, <<"scan">>, x,
                     must_respond(_recv(x), IF decompress_all(_recv(x).message).ok
                                            THEN "return"
                                            ELSE decompress_all(_recv(x).message).error),
                     _scopes[_api])
    /\ UNCHANGED <<compact, _api, codecVars>>

\* plot.get_size(): PlotSize(size) raises ValueError for a text that is no size
PlotGetSize(self, x) ==
    /\ Running
    /\ self \in Constructed
    /\ IF ~_require_scope("plot")
       THEN OutOfScope("plot.get_size", self, <<>>) /\ UNCHANGED <<socket, _scopes>>
       ELSE Exchange("plot.get_size", self, <<>>, <<"size">>, x,
                     must_respond(_recv(x),
                                  IF Len(_recv(x).message) = 1
                                     /\ get_from_value(PlotSize, _recv(x).message[1]) # None
                                  THEN "return" ELSE "ValueError"),
                     _scopes[_api])
    /\ UNCHANGED <<compact, _api, codecVars>>

\* place(compact): the flag is that of the caller's own builder
PlaceCall(self, c) ==
    /\ Running
    /\ self \in Constructed
    /\ IF ~_require_scope("place")
       THEN OutOfScope("place", self, c) /\ UNCHANGED compact
       ELSE /\ compact' = [compact EXCEPT ![self] = c]
            /\ last' = Invocation("place", self, c, "return", <<>>, <<>>)
    /\ UNCHANGED <<_scopes, socket, _api, codecVars>>

\* the flag is set before the send
PlaceSetCompact(self) ==
    /\ Running
    /\ self \in Constructed
    /\ IF ~_require_scope("place")
       THEN OutOfScope("place.set_compact", self, <<>>) /\ UNCHANGED compact
       ELSE /\ compact' = [compact EXCEPT ![self] = TRUE]
            /\ SendOnly("place.set_compact", self, <<>>, Sent(_api, <<"place", "compact">>))
    /\ UNCHANGED <<_scopes, socket, _api, codecVars>>

PlaceSetSwap(self) ==
    /\ Running
    /\ self \in Constructed
    /\ IF ~_require_scope("place")
       THEN OutOfScope("place.set_swap", self, <<>>) /\ UNCHANGED compact
       ELSE /\ compact' = [compact EXCEPT ![self] = FALSE]
            /\ SendOnly("place.set_swap", self, <<>>, Sent(_api, <<"place", "swap">>))
    /\ UNCHANGED <<_scopes, socket, _api, codecVars>>

\* place.place(template), for a template that gzip makes `size` bytes of:
\* compress() is evaluated before the send
PlacePlace(self, template, size) ==
    /\ Running
    /\ self \in Constructed
    /\ LET arg == [template |-> template, size |-> size]
           c == Template_compress(template, size)
       IN  IF ~_require_scope("place") THEN OutOfScope("place.place", self, arg)
           ELSE IF ~c.ok
           THEN last' = Invocation("place.place", self, arg, c.error, <<>>, <<>>)
           ELSE SendOnly("place.place", self, arg, SentPayload(_api, <<"place">>, c.value))
    /\ UNCHANGED <<_scopes, socket, compact, _api, codecVars>>

PlaceExecute(self) ==
    /\ Running
    /\ self \in Constructed
    /\ IF ~_require_scope("place") THEN OutOfScope("place.execute", self, <<>>)
       ELSE SendOnly("place.execute", self, <<>>, Sent(_api, <<"place", "go">>))
    /\ UNCHANGED <<_scopes, socket, compact, _api, codecVars>>

ClearPlot(self) ==
    /\ Running
    /\ self \in Constructed
    /\ IF ~_require_scope("clear_plot") THEN OutOfScope("clear_plot", self, <<>>)
       ELSE SendOnly("clear_plot", self, <<>>, Sent(_api, <<"clear">>))
    /\ UNCHANGED <<_scopes, socket, compact, _api, codecVars>>

\* the inputs the model draws
GiveItems == {"{id:stone}"}
InvLists == {<<"{id:stone}">>}
Tokens == {"t0k3n"}
Modes == {"dev"}
RequestSets == {{"INVENTORY"}, CCAuthScopes}
Timeouts == {"None", "finite"}
BracketTemplate == Template(<<Bracket(TRUE, FALSE)>>, <<>>)
JoinTemplate == Template(<<CodeBlock("PLAYER_EVENT", "Join", <<>>, "AUTO", <<>>)>>, <<>>)
PlaceTemplates == {BracketTemplate}
GzipSizes == {49149, 49150}

\* the answers to the commands whose answer is data
TokenMsgs == {<<"t0k3n">>}
InvMsgs == {<<"[", "{id:stone}", "]">>, <<"auth">>}
ModeMsgs == {<<"dev">>}
SizeMsgs == {<<"basic">>, <<"auth">>}
ScanMsgs ==
    { <<Template_compress(BracketTemplate, 60).value>>,
      <<Template_compress(JoinTemplate, 90).value>> }

Next ==
    \/ \E self \in Sessions : Construct(self)
    \/ \E self \in Sessions : Close(self)
    \/ \E self \in Sessions, item \in GiveItems, x \in InTime(RefusedMsgs) : Give(self, item, x)
    \/ \E self \in Sessions, x \in InTime(TokenMsgs) : TokenGet(self, x)
    \/ \E self \in Sessions, x \in InTime(ScopeMsgs) : ScopesQuery(self, x)
    \/ \E self \in Sessions, requested \in RequestSets, timeout \in Timeouts,
          x \in InTime(RequestMsgs) : ScopesRequest(self, requested, timeout, x)
    \/ \E self \in Sessions, token \in Tokens, x \in InTime(AuthMsgs), y \in InTime(ScopeMsgs) :
          TokenAuthenticate(self, token, x, y)
    \/ \E self \in Sessions, x \in InTime(InvMsgs) : InvGet(self, x)
    \/ \E self \in Sessions, items \in InvLists, x \in InTime(RefusedMsgs) : InvSet(self, items, x)
    \/ \E self \in Sessions : Spawn(self)
    \/ \E self \in Sessions, x \in InTime(ModeMsgs) : ModeGet(self, x)
    \/ \E self \in Sessions, mode \in Modes : ModeSet(self, mode)
    \/ \E self \in Sessions, x \in InTime(ScanMsgs) : PlotGetTemplates(self, x)
    \/ \E self \in Sessions, x \in InTime(SizeMsgs) : PlotGetSize(self, x)
    \/ \E self \in Sessions, c \in BOOLEAN : PlaceCall(self, c)
    \/ \E self \in Sessions : PlaceSetCompact(self)
    \/ \E self \in Sessions : PlaceSetSwap(self)
    \/ \E self \in Sessions, template \in PlaceTemplates, size \in GzipSizes :
          PlacePlace(self, template, size)
    \/ \E self \in Sessions : PlaceExecute(self)
    \/ \E self \in Sessions : ClearPlot(self)

Init == SessionInit /\ CodecIdle

Spec == Init /\ [][Next]_vars

-----------------------------------------------------------------------------
(* The codecs, run on one value: obj is the value, json what it was encoded *)
(* to, res what that was decoded to. No session is open.                    *)

Slots == {-1, 3}
Indexes == {0, 2}

Items ==
    {String("hi", s) : s \in Slots}
    \cup {Text("<red>hi", s) : s \in Slots}
    \cup {Number("5", s) : s \in Slots}
    \cup {Location(1, 2, 3, 0, 90, s) : s \in Slots}
    \cup {Vector(1, 2, 3, s) : s \in Slots}
    \cup {Sound("Pling", 1, 2, c, s) : c \in BOOLEAN, s \in Slots}
    \cup {Particle("Cloud", <<0, 0>>, 1,
                   ParticleData("#FF0000", 0, "#000000", 1, 0, <<1, 0, 0>>, 100, m, 0), s) :
            m \in {"air", "Stone"}, s \in Slots}
    \cup {Potion("Speed", d, a, s) : d \in {-1, 20, 1000000}, a \in {1, 2, 4}, s \in Slots}
    \cup {Variable("x", sc, s) : sc \in DOMAIN VariableScope, s \in Slots}
    \cup {GameValue("Location", sel, s) : sel \in {"DEFAULT", "SELECTION"}, s \in Slots}
    \cup {Parameter("p", "NUMBER", pl, d, ds, <<>>, s) :
            pl \in BOOLEAN, d \in {<<>>, <<Number("1", -1)>>}, ds \in {<<>>, <<"text">>},
            s \in Slots}
    \cup {BlockTag("Tag", "Option", s) : s \in Slots}

ItemInit ==
    /\ SessionInit
    /\ obj \in {<<i>> : i \in Items}
    /\ json = <<>>
    /\ res = <<>>

\* obj.to_json(index)
EncodeItem(index) ==
    /\ obj # <<>> /\ json = <<>>
    /\ json' = <<Item_to_json(obj[1], index)>>
    /\ UNCHANGED <<obj, res, sessionVars>>

\* Item.from_json(json)
DecodeItem ==
    /\ json # <<>> /\ res = <<>>
    /\ res' = <<Item_from_json(json[1])>>
    /\ UNCHANGED <<obj, json, sessionVars>>

NextItem ==
    \/ \E index \in Indexes : EncodeItem(index)
    \/ DecodeItem

SpecItem == ItemInit /\ [][NextItem]_vars

MaxBlocks == 2

Blocks ==
    {Bracket(o, r) : o \in BOOLEAN, r \in BOOLEAN}
    \cup { CodeBlock("PLAYER_EVENT", "Join", <<>>, "AUTO", <<>>),
           CodeBlock("PLAYER_ACTION", "SendMessage", <<String("hi", -1)>>, "SELECTION", <<>>),
           CodeBlock("IF_PLAYER", "IsSneaking", <<>>, "AUTO", << <<"attribute", "NOT">> >>),
           CodeBlock("PLAYER_ACTION", "SendMessage", <<String("hello", -1)>>, "AUTO", <<>>),
           CodeBlock("SET_VARIABLE", "=", <<Variable("x", "LINE", 3), RawInt(5), RawStr("hi")>>,
                     "AUTO", <<>>) }

Templates ==
    {Template(b, <<>>) : b \in UNION {[1..n -> Blocks] : n \in 0..MaxBlocks}}

TemplateInit ==
    /\ SessionInit
    /\ obj \in {<<t>> : t \in Templates}
    /\ json = <<>>
    /\ res = <<>>

\* obj.to_json()
TemplateToJson ==
    /\ obj # <<>> /\ json = <<>>
    /\ json' = <<[form |-> "document", made |-> Ok(Template_to_json(obj[1]))]>>
    /\ UNCHANGED <<obj, res, sessionVars>>

\* obj.compress(), for a document that gzip makes `size` bytes of
TemplateCompress(size) ==
    /\ obj # <<>> /\ json = <<>>
    /\ json' = <<[form |-> "envelope", made |-> Template_compress(obj[1], size)]>>
    /\ UNCHANGED <<obj, res, sessionVars>>

\* Template.from_json(json)
TemplateFromJson ==
    /\ json # <<>> /\ res = <<>>
    /\ json[1].form = "document"
    /\ res' = <<Template_from_json(json[1].made.value)>>
    /\ UNCHANGED <<obj, json, sessionVars>>

\* Template.decompress(json), of an envelope compress() returned
TemplateDecompress ==
    /\ json # <<>> /\ res = <<>>
    /\ json[1].form = "envelope"
    /\ json[1].made.ok
    /\ res' = <<Template_decompress(json[1].made.value)>>
    /\ UNCHANGED <<obj, json, sessionVars>>

NextTemplate ==
    \/ TemplateToJson
    \/ \E size \in GzipSizes \cup {300} : TemplateCompress(size)
    \/ TemplateFromJson
    \/ TemplateDecompress

SpecTemplate == TemplateInit /\ [][NextTemplate]_vars

MaxArgs == 3

\* the arguments of the blocks under test: tags with and without a slot of
\* their own, among other items
ArgItems ==
    {BlockTag("Tag", "Option", s) : s \in Slots}
    \cup {String("hi", -1), Number("5", 7)}

ArgBlocks ==
    {CodeBlock(c[1], c[2], a, "AUTO", <<>>) :
        c \in {<<"PLAYER_ACTION", "SendMessage">>, <<"SELECT_OBJECT", "">>},
        a \in UNION {[1..n -> ArgItems] : n \in 0..MaxArgs}}

BlockInit ==
    /\ SessionInit
    /\ obj \in {<<b>> : b \in ArgBlocks}
    /\ json = <<>>
    /\ res = <<>>

\* obj.to_json()
EncodeBlock ==
    /\ obj # <<>> /\ json = <<>>
    /\ json' = <<Block_to_json(obj[1])>>
    /\ UNCHANGED <<obj, res, sessionVars>>

\* Block.from_json(json)
DecodeBlock ==
    /\ json # <<>> /\ res = <<>>
    /\ res' = <<Block_from_json(json[1])>>
    /\ UNCHANGED <<obj, json, sessionVars>>

NextBlock == EncodeBlock \/ DecodeBlock

SpecBlock == BlockInit /\ [][NextBlock]_vars

\* the rows of a chest: 27 slots, 0..26
MaxChest == 27

\* n copies of an item
Repeat(item, n) == [i \in 1..n |-> item]

\* the blocks whose arguments all have the default slot: a run of tags, a run
\* of other items, a run of tags, of at most MaxChest arguments in all
ChestBlocks ==
    {CodeBlock("PLAYER_ACTION", "SendMessage",
               Repeat(BlockTag("Tag", "Option", -1), a)
               \o Repeat(String("hi", -1), b)
               \o Repeat(BlockTag("Tag", "Option", -1), c),
               "AUTO", <<>>) :
        <<a, b, c>> \in {t \in (0..MaxChest) \X (0..MaxChest) \X (0..MaxChest) :
                            t[1] + t[2] + t[3] <= MaxChest}}

ChestInit ==
    /\ SessionInit
    /\ obj \in {<<b>> : b \in ChestBlocks}
    /\ json = <<>>
    /\ res = <<>>

\* obj.to_json()
NextChest == EncodeBlock

SpecChest == ChestInit /\ [][NextChest]_vars

\* One session and a companion that answers each request at most once, in time
\* or after the timeout of the recv that waited for it.
NextLate ==
    \/ Construct(1)
    \/ \E item \in GiveItems, x \in RecvInputs(RefusedMsgs) : Give(1, item, x)
    \/ \E items \in InvLists, x \in RecvInputs(RefusedMsgs) : InvSet(1, items, x)
    \/ \E x \in RecvInputs(ScopeMsgs) : ScopesQuery(1, x)
    \/ \E requested \in RequestSets, x \in InTime(RequestMsgs) :
          ScopesRequest(1, requested, "finite", x)
    \/ \E x \in RecvInputs(TokenMsgs) : TokenGet(1, x)
    \/ \E x \in RecvInputs(ModeMsgs) : ModeGet(1, x)
    \/ \E x \in RecvInputs(SizeMsgs) : PlotGetSize(1, x)

SpecLate == Init /\ [][NextLate]_vars

\* The decoders, run on a document that no encoder made: json is the document.

\* a key that is absent, or present with one of the values vs
OptKey(k, vs) == {<<>>} \cup {<< <<k, v>> >> : v \in vs}

\* the category texts, and a text that is none
BlockTexts == {CodeBlockCategory[c] : c \in DOMAIN CodeBlockCategory} \cup {"bogus"}

WireBlocks ==
    { << <<"id", "block">> >> \o b \o a \o t \o d :
        b \in OptKey("block", BlockTexts), a \in OptKey("action", {"Do"}),
        t \in OptKey("target", {"Selection", "Nobody"}), d \in OptKey("data", {"f"}) }

WireItems ==
    { [item |-> [id |-> "var", data |-> [name |-> "x", scope |-> sc]], slot |-> 0] :
        sc \in {VariableScope[v] : v \in DOMAIN VariableScope} \cup {"bogus"} }
    \cup
    { [item |-> [id |-> "pn_el",
                 data |-> [name |-> "p", type |-> ty, plural |-> FALSE, optional |-> FALSE]],
       slot |-> 0] :
        ty \in {DataType[t] : t \in DOMAIN DataType} \cup {"bogus"} }

WireInit ==
    /\ SessionInit
    /\ obj = <<>>
    /\ json \in {<<[form |-> "block", doc |-> d]>> : d \in WireBlocks}
                \cup {<<[form |-> "item", doc |-> d]>> : d \in WireItems}
    /\ res = <<>>

\* Block.from_json(json)
DecodeWireBlock ==
    /\ json[1].form = "block" /\ res = <<>>
    /\ res' = <<Block_from_json(json[1].doc)>>
    /\ UNCHANGED <<obj, json, sessionVars>>

\* Item.from_json(json)
DecodeWireItem ==
    /\ json[1].form = "item" /\ res = <<>>
    /\ res' = <<Item_from_json(json[1].doc)>>
    /\ UNCHANGED <<obj, json, sessionVars>>

NextWire == DecodeWireBlock \/ DecodeWireItem

SpecWire == WireInit /\ [][NextWire]_vars

\* The statements t = t + C and t += C, run on the Template obj with the
\* operand json: res is what the name t denotes afterwards (an optional), and
\* the Template object that obj was, as the statement left it.

Operands ==
    {OneBlock(b) : b \in Blocks}
    \cup {BlockList(l) : l \in UNION {[1..n -> {Bracket(TRUE, FALSE), Bracket(FALSE, FALSE)}] :
                                        n \in 0..MaxBlocks}}

AppendInit ==
    /\ SessionInit
    /\ obj \in {<<t>> : t \in Templates}
    /\ json = <<>>
    /\ res = <<>>

\* t = t + code
Add(code) ==
    /\ res = <<>>
    /\ json' = <<[stmt |-> "+", code |-> code]>>
    /\ res' = <<[t |-> <<Template_add(obj[1], code)>>, object |-> obj[1]]>>
    /\ UNCHANGED <<obj, sessionVars>>

\* t += code: the name t is bound to what __iadd__ returns
AugmentedAdd(code) ==
    /\ res = <<>>
    /\ json' = <<[stmt |-> "+=", code |-> code]>>
    /\ res' = <<[t |-> Template_iadd(obj[1], code).returned,
                 object |-> Template_iadd(obj[1], code).self]>>
    /\ UNCHANGED <<obj, sessionVars>>

NextAppend ==
    \/ \E code \in Operands : Add(code)
    \/ \E code \in Operands : AugmentedAdd(code)

SpecAppend == AppendInit /\ [][NextAppend]_vars

-----------------------------------------------------------------------------
(* The contract of the session, over the record of the last call.           *)

\* the method class of each scoped operation
OpMethod ==
    [op \in {"inv.get", "inv.set"} |-> "inv"]
    @@ ("spawn" :> "spawn")
    @@ [op \in {"mode.get", "mode.set"} |-> "mode"]
    @@ [op \in {"plot.get_templates", "plot.get_size"} |-> "plot"]
    @@ [op \in {"place", "place.set_compact", "place.set_swap", "place.place",
                "place.execute"} |-> "place"]
    @@ ("clear_plot" :> "clear_plot")

GatedOps == DOMAIN OpMethod

\* the first word of the line each operation sends
Command ==
    [op \in {"token.get", "token.authenticate"} |-> "token"]
    @@ [op \in {"scopes", "scopes.request"} |-> "scopes"]
    @@ [op \in {"mode.get", "mode.set"} |-> "mode"]
    @@ [op \in {"place.set_compact", "place.set_swap", "place.place", "place.execute"}
          |-> "place"]
    @@ ("give" :> "give") @@ ("inv.get" :> "inv") @@ ("inv.set" :> "setinv")
    @@ ("spawn" :> "spawn") @@ ("plot.get_templates" :> "scan")
    @@ ("plot.get_size" :> "size") @@ ("clear_plot" :> "clear")

MustRespondOps ==
    {"scopes", "token.get", "token.authenticate", "inv.get", "plot.get_templates",
     "plot.get_size"}

\* the call got an answer to its i-th recv, and the answer contains "auth"
Acknowledged(l, i) ==
    /\ Len(l.recv) >= i
    /\ ~l.recv[i].timeout
    /\ StrIn("auth", l.recv[i].message)

\* C1: a gated operation called on a session whose authorized scope set does
\* not hold the operation's scope ends with the out-of-scope error, writes no
\* line to a socket, and changes neither a scope set nor a placement-mode flag.
C1_ScopeGate ==
    [][ (/\ last'.op \in GatedOps
         /\ ~FlagIn(MethodScope[OpMethod[last'.op]], _scopes[last'.self]))
        => /\ last'.result = "CCOutOfScopeError"
           /\ last'.lines = <<>>
           /\ _scopes' = _scopes
           /\ compact' = compact ]_vars

\* C2: in every state the authorized scope set of every session holds DEFAULT:
\* have_scope(DEFAULT) is true.
C2_DefaultGranted == \A self \in Constructed : have_scope(self, {"DEFAULT"})

\* C3: scopes.request(S) sends the one line "scopes <names of S>"; with an
\* acknowledgment that contains "auth" the session's authorized scope set
\* becomes S, and in every other outcome it is what it was before the call.
C3_Negotiation ==
    [][ (last'.op = "scopes.request" /\ last'.result # "ConnectionClosed")
        => /\ Len(last'.lines) = 1
           /\ last'.lines[1].words = <<"scopes">> \o scope_list(last'.arg, 1)
           /\ _scopes'[last'.self] =
                IF Acknowledged(last', 1) THEN last'.arg ELSE _scopes[last'.self] ]_vars

\* the calls that make a successful scope authorization or token
\* reauthentication: a scope query that was answered, a request that was
\* acknowledged, an authenticate whose scope query was answered
Reauthorized(l) ==
    \/ l.op = "scopes" /\ l.result = "return"
    \/ l.op = "scopes.request" /\ Acknowledged(l, 1)
    \/ l.op = "token.authenticate" /\ Len(l.recv) = 2 /\ l.result = "return"

\* C4: a session's authorized scope set starts as {DEFAULT}, and a step changes
\* a scope set only if it is a successful scope query, scope request or token
\* reauthentication: every other operation, and every failed or timed-out
\* exchange, leaves all scope sets as they were.
C4_ScopesFrame ==
    [][ /\ \A s \in DOMAIN _scopes' \ DOMAIN _scopes : _scopes'[s] = {"DEFAULT"}
        /\ \A s \in DOMAIN _scopes :
              _scopes'[s] # _scopes[s] => Reauthorized(last') ]_vars

\* a request was refused on a session that holds every scope, and holds them still
C4_Witness ==
    /\ last.op = "scopes.request"
    /\ last.result = "return"
    /\ ~Acknowledged(last, 1)
    /\ _scopes[_api] = CCAuthScopes

\* C5: token.authenticate(tok) sends "token <tok>"; on the answer "invalid
\* token" it raises CCInvalidToken and no scope set changes; on an answer that
\* contains "auth" it sends the scope query "scopes", and the session's scope
\* set becomes the set the answer to that query names.
C5_Reauthentication ==
    [][ (last'.op = "token.authenticate" /\ last'.result # "ConnectionClosed")
        => /\ last'.lines[1].words = <<"token", last'.arg>>
           /\ (~last'.recv[1].timeout /\ last'.recv[1].message = <<"invalid", "token">>)
                 => (last'.result = "CCInvalidToken" /\ _scopes' = _scopes)
           /\ Acknowledged(last', 1)
                 => /\ Len(last'.lines) = 2
                    /\ last'.lines[2].words = <<"scopes">>
                    /\ ~last'.recv[2].timeout
                          => _scopes'[last'.self] = new_scopes(last'.recv[2].message) ]_vars

\* C6: a give or an inv.set that has sent its line completes normally when no
\* answer comes within the timeout, raises SendToMinecraftError on the answer
\* "not creative mode", completes normally on any other answer, and in all
\* three outcomes leaves every scope set unchanged.
C6_SoftFailure ==
    [][ (last'.op \in {"give", "inv.set"} /\ last'.lines # <<>>)
        => /\ Len(last'.recv) = 1
           /\ last'.result =
                IF /\ ~last'.recv[1].timeout
                   /\ last'.recv[1].message = <<"not", "creative", "mode">>
                THEN "SendToMinecraftError" ELSE "return"
           /\ _scopes' = _scopes ]_vars

\* a give was not answered and returned, on a session that holds every scope
C6_Witness ==
    /\ last.op = "give"
    /\ last.lines # <<>>
    /\ last.recv[1].timeout
    /\ last.result = "return"
    /\ _scopes[_api] = CCAuthScopes

\* the call got as far as its send, on an open socket
Transmits(l) == l.result \notin {"CCOutOfScopeError", "OverflowError", "ConnectionClosed"}

\* C7: a must-respond call that gets no answer within the timeout ends with
\* TimeoutError; and a call of any operation writes its command line exactly
\* once when it comes to its send on an open socket, and never otherwise, so a
\* timeout makes no resend (token.authenticate writes, besides its own line,
\* the line of the scope query it makes, once).
C7_MustRespondNoResend ==
    /\ (last.op \in MustRespondOps /\ \E i \in DOMAIN last.recv : last.recv[i].timeout)
          => last.result = "TimeoutError"
    /\ last.op \in DOMAIN Command
          => /\ Cardinality({i \in DOMAIN last.lines :
                               last.lines[i].words[1] = Command[last.op]})
                  = IF Transmits(last) THEN 1 ELSE 0
             /\ Len(last.lines) <= IF last.op = "token.authenticate" THEN 2 ELSE 1

\* plot.get_size was not answered: it wrote its line once and timed out
C7_Witness ==
    /\ last.op = "plot.get_size"
    /\ Len(last.lines) = 1
    /\ last.recv = <<[timeout |-> TRUE, message |-> <<>>]>>
    /\ last.result = "TimeoutError"

\* the length of the base64 text of `size` bytes
EnvelopeLen(size) == 4 * ((size + 2) \div 3)

\* C8: compress() returns the envelope when its length is at most 65,535 and
\* raises OverflowError when it is longer; place.place of a template whose
\* envelope is longer ends with OverflowError and writes no line, and one whose
\* envelope fits sends it whole in one line.
C8_SizeLimit ==
    (last.op = "place.place" /\ last.result # "CCOutOfScopeError")
    => LET c == Template_compress(last.arg.template, last.arg.size)
           long == EnvelopeLen(last.arg.size) > 65535
       IN  /\ c.ok <=> ~long
           /\ c.ok => c.value.len = EnvelopeLen(last.arg.size)
           /\ ~c.ok => c.error = "OverflowError"
           /\ long => (last.result = "OverflowError" /\ last.lines = <<>>)
           /\ (~long /\ last.result = "return")
                 => /\ Len(last.lines) = 1
                    /\ last.lines[1].words = <<"place">>
                    /\ last.lines[1].payload = <<c.value>>

\* place.place of a template with an envelope of 65,536 characters
C8_Witness ==
    /\ last.op = "place.place"
    /\ EnvelopeLen(last.arg.size) = 65536
    /\ last.result = "OverflowError"
    /\ last.lines = <<>>

-----------------------------------------------------------------------------
(* The contract of the codecs.                                              *)

\* two Items are equal field by field: a slot that was given is kept (one that
\* was not is the position the item was encoded at), and the material of a
\* Particle is compared without case
SameItem(a, b) ==
    /\ a.id = b.id
    /\ a.slot # -1 => b.slot = a.slot
    /\ IF a.id = "part"
       THEN [a EXCEPT !.slot = 0, !.data.material = Lower(@)]
            = [b EXCEPT !.slot = 0, !.data.material = Lower(@)]
       ELSE [a EXCEPT !.slot = 0] = [b EXCEPT !.slot = 0]

SameBlock(a, b) ==
    /\ a.kind = b.kind
    /\ IF a.kind = "Bracket" THEN a = b
       ELSE /\ a.category = b.category
            /\ a.action = b.action
            /\ a.selection = b.selection
            /\ a.extras = b.extras
            /\ Len(a.args) = Len(b.args)
            /\ \A i \in DOMAIN a.args : SameItem(parse_values(a.args)[i], b.args[i])

SameTemplate(a, b) ==
    /\ Len(a.codeblocks) = Len(b.codeblocks)
    /\ \A i \in DOMAIN a.codeblocks : SameBlock(a.codeblocks[i], b.codeblocks[i])

\* C9: what from_json makes of to_json's document of a Template, and what
\* decompress makes of compress's envelope of it, is made without an error and
\* is a Template with the same blocks in the same order.
C9_TemplateRoundTrip ==
    res # <<>> => (res[1].ok /\ SameTemplate(obj[1], res[1].value))

\* C10: what Item.from_json makes of an Item's to_json is made without an error
\* and equals the Item field by field, the material of a Particle without case.
C10_ItemRoundTrip ==
    res # <<>> => (res[1].ok /\ SameItem(obj[1], res[1].value))

\* C11: a Potion is written with amp = amplifier - 1 and dur = its duration,
\* 1,000,000 for the duration -1; it is read with amplifier = amp + 1 and
\* duration = dur, -1 for the dur 1,000,000: so amplifier 1 is written 0 and
\* read back 1, duration -1 is written 1,000,000 and read back -1, and
\* {"pot": "Speed", "dur": 1000000, "amp": 3} is read as duration -1, amplifier 4.
C11_PotionWire ==
    (obj # <<>> /\ obj[1].id = "pot" /\ json # <<>>)
    => LET p == obj[1]
           w == json[1].item.data
       IN  /\ w.pot = p.effect
           /\ w.amp = p.amplifier - 1
           /\ w.dur = IF p.duration = -1 THEN 1000000 ELSE p.duration
           /\ res # <<>>
                 => /\ res[1].ok
                    /\ res[1].value.effect = w.pot
                    /\ res[1].value.amplifier = w.amp + 1
                    /\ res[1].value.duration = IF w.dur = 1000000 THEN -1 ELSE w.dur
                    /\ p.amplifier = 1 => (w.amp = 0 /\ res[1].value.amplifier = 1)
                    /\ p.duration = -1 => (w.dur = 1000000 /\ res[1].value.duration = -1)
                    /\ w = [pot |-> "Speed", dur |-> 1000000, amp |-> 3]
                          => (res[1].value.duration = -1 /\ res[1].value.amplifier = 4)

\* the document {"pot": "Speed", "dur": 1000000, "amp": 3} was read
C11_Witness ==
    /\ json # <<>> /\ res # <<>>
    /\ json[1].item.id = "pot"
    /\ json[1].item.data = [pot |-> "Speed", dur |-> 1000000, amp |-> 3]
    /\ res[1].ok
    /\ res[1].value.duration = -1
    /\ res[1].value.amplifier = 4

\* C12: a Parameter is written with optional = (it has no default) and, when it
\* has a default, with the default's item fragment under default_value; what
\* is read back from that has no default when the Parameter had none, and the
\* default d when the Parameter had the default d.
C12_ParameterDefault ==
    (obj # <<>> /\ obj[1].id = "pn_el" /\ json # <<>>)
    => LET p == obj[1]
           w == json[1].item.data
       IN  /\ w.optional = (p.default = <<>>)
           /\ ("default_value" \in DOMAIN w) = (p.default # <<>>)
           /\ p.default # <<>>
                 => w.default_value = [id |-> p.default[1].id,
                                       data |-> _getdata(p.default[1])]
           /\ res # <<>>
                 => /\ res[1].ok
                    /\ Len(res[1].value.default) = Len(p.default)
                    /\ p.default # <<>>
                          => SameItem(p.default[1], res[1].value.default[1])

\* the number of BlockTags among the first n arguments
TagsBefore(args, n) == Cardinality({i \in 1..n : args[i].id = "bl_tag"})

\* C13: in the encoding of a CodeBlock, the j-th BlockTag of its arguments
\* (from 0, in argument order, whatever slot the tag carries) has slot 26 - j,
\* its data's action is the block's action, "dynamic" for the empty action,
\* and its data's block is the block's category.
C13_BlockTagSlots ==
    (obj # <<>> /\ obj[1].kind = "CodeBlock" /\ json # <<>>)
    => \A i \in DOMAIN obj[1].args :
          obj[1].args[i].id = "bl_tag"
          => LET frag == Get(json[1], "args").items[i]
             IN  /\ frag.slot = 26 - TagsBefore(obj[1].args, i - 1)
                 /\ frag.item.data.action =
                      IF obj[1].action = "" THEN "dynamic" ELSE obj[1].action
                 /\ frag.item.data.block = CodeBlockCategory[obj[1].category]

\* the template of the scenario, and the document the specification gives for it
HelloTemplate ==
    <<CodeBlock("PLAYER_ACTION", "SendMessage", <<String("hello", -1)>>, "AUTO", <<>>),
      Bracket(TRUE, FALSE)>>
HelloDocument ==
    << <<"blocks",
         << << <<"id", "block">>,
               <<"block", "player_action">>,
               <<"action", "SendMessage">>,
               <<"args", [items |-> <<[item |-> [id |-> "txt", data |-> [name |-> "hello"]],
                                       slot |-> 0]>>]>> >>,
            << <<"id", "bracket">>, <<"direct", "open">>, <<"type", "norm">> >> >> >> >>

\* the encoding e of the CodeBlock b is as C14 says
EncodedAs(b, e) ==
    LET a == parse_values(b.args)
        items == Get(e, "args").items
    IN  /\ Get(e, "id") = "block"
        /\ Get(e, "block") = CodeBlockCategory[b.category]
        /\ Get(e, "action") = b.action
        /\ Len(items) = Len(a)
        /\ \A k \in DOMAIN a :
              a[k].id # "bl_tag"
              => /\ items[k].slot = IF a[k].slot = -1 THEN k - 1 ELSE a[k].slot
                 /\ items[k].item = [id |-> a[k].id, data |-> _getdata(a[k])]
        /\ Has(e, "target") = (b.selection # "AUTO")
        /\ b.selection # "AUTO" => Get(e, "target") = Selection[b.selection]
        /\ \A x \in DOMAIN b.extras :
              Has(e, b.extras[x][1]) /\ Get(e, b.extras[x][1]) = b.extras[x][2]

\* C14: the document of a Template holds, for each CodeBlock, an object with
\* id "block", its category, its action, one fragment per argument in order
\* (each argument that is no BlockTag at its own slot or else at its position),
\* a target exactly when the selection is not AUTO, and every extra as a key;
\* and the document of the scenario's template is the scenario's document.
C14_BlockEncoding ==
    (obj # <<>> /\ json # <<>> /\ json[1].form = "document")
    => LET blocks == Get(json[1].made.value, "blocks")
       IN  /\ Len(blocks) = Len(obj[1].codeblocks)
           /\ \A i \in DOMAIN blocks :
                 obj[1].codeblocks[i].kind = "CodeBlock"
                 => EncodedAs(obj[1].codeblocks[i], blocks[i])
           /\ obj[1].codeblocks = HelloTemplate => json[1].made.value = HelloDocument

\* the scenario's template was encoded
C14_Witness ==
    /\ obj # <<>> /\ json # <<>>
    /\ json[1].form = "document"
    /\ obj[1].codeblocks = HelloTemplate
    /\ json[1].made.value = HelloDocument

\* the decoding ended with a validation error
Malformed(r) ==
    ~r.ok /\ r.error \in {"MalformedCodeBlockJSONError", "MalformedItemJSONError"}

\* the categories that keep their name in the data attribute
NamedByData == {"func", "process", "call_func", "start_process"}

\* C15: decoding an object with id "block" fails with a validation error when
\* it has no block key, when it has no action key unless its category is
\* "else" (or one of func, process, call_func, start_process), and when it has
\* no data key and its category is one of those four; for those four a data
\* key is enough: the decoding does not fail for a missing key.
C15_RequiredKeys ==
    (json # <<>> /\ json[1].form = "block" /\ res # <<>>)
    => LET j == json[1].doc
           cat == Get(j, "block")
       IN  /\ ~Has(j, "block") => Malformed(res[1])
           /\ (Has(j, "block") /\ cat \notin NamedByData \cup {"else"} /\ ~Has(j, "action"))
                 => Malformed(res[1])
           /\ (Has(j, "block") /\ cat \in NamedByData /\ ~Has(j, "data"))
                 => Malformed(res[1])
           /\ (Has(j, "block") /\ cat \in NamedByData /\ Has(j, "data"))
                 => ~Malformed(res[1])

\* the document holds a text that is no member of the enum it is read into
OutOfDomain(w) ==
    IF w.form = "block"
    THEN \/ Has(w.doc, "block")
            /\ Get(w.doc, "block") \notin {CodeBlockCategory[c] : c \in DOMAIN CodeBlockCategory}
         \/ Has(w.doc, "target")
            /\ Get(w.doc, "target") \notin {Selection[x] : x \in DOMAIN Selection}
    ELSE \/ w.doc.item.id = "var"
            /\ w.doc.item.data.scope \notin {VariableScope[v] : v \in DOMAIN VariableScope}
         \/ w.doc.item.id = "pn_el"
            /\ w.doc.item.data.type \notin {DataType[t] : t \in DOMAIN DataType}

\* C16: decoding a CodeBlock whose block text is no category or whose target
\* is no selection, a Variable whose scope text is no scope, or a Parameter
\* whose type text is no data type, fails with a validation error, and never
\* returns an object.
C16_EnumDomain ==
    (json # <<>> /\ res # <<>> /\ OutOfDomain(json[1])) => Malformed(res[1])

\* C17: once a "place <template>" line has been sent, and until "place go" is
\* sent, no operation changes the mode of the placement: neither a builder's
\* flag, nor by sending "place compact" or "place swap". Stated of the step
\* that follows the sending of a "place <template>" line, when it is a call on
\* the same session: the batch is open there.
C17_ModeFixed ==
    [][ (last.op = "place.place" /\ last.result = "return" /\ last'.self = last.self)
        => /\ compact'[last.self] = compact[last.self]
           /\ \A i \in DOMAIN last'.lines :
                 last'.lines[i].words \notin {<<"place", "compact">>, <<"place", "swap">>} ]_vars

\* C18: after t += C, for a Template t with the blocks B, the name t denotes a
\* Template whose blocks are B followed by the blocks of C, in order.
C18_InPlaceAppend ==
    (res # <<>> /\ json[1].stmt = "+=")
    => /\ res[1].t # <<>>
       /\ res[1].t[1].codeblocks = obj[1].codeblocks \o json[1].code.blocks

\* C19: with several sessions open, an operation called on a session checks
\* that session's scope set, writes to and reads from that session's socket
\* only, and changes no other session's scope set or socket.
C19_Isolation ==
    [][ last'.op \notin {"none", "__init__"}
        => /\ \A i \in DOMAIN last'.lines : last'.lines[i].socket = last'.self
           /\ \A s \in DOMAIN _scopes :
                 s # last'.self => (_scopes'[s] = _scopes[s] /\ socket'[s] = socket[s])
           /\ last'.op \in GatedOps
                 => (last'.result = "CCOutOfScopeError")
                    = ~FlagIn(MethodScope[OpMethod[last'.op]], _scopes[last'.self]) ]_vars

\* C20: the message a must-respond command consumes is the answer to that
\* command: it is not a message that was left unread on the socket by an
\* earlier command whose answer came after its timeout; and so a scope query
\* never takes such a message for the scope list, and the scope set never
\* changes by one.
C20_Pairing ==
    [][ (/\ last'.op \in MustRespondOps \cup {"mode.get"}
         /\ last'.recv # <<>>
         /\ ~last'.recv[1].timeout)
        => /\ socket[last'.self].inbox = <<>>
           /\ (last'.op = "scopes" /\ socket[last'.self].inbox # <<>>)
                 => _scopes' = _scopes ]_vars

\* C21: in the encoding of a CodeBlock with at most 27 arguments, all with the
\* default slot, tags and other items in any order, the slots of the encoded
\* arguments are pairwise distinct and all lie in 0..26.
C21_SlotUniqueness ==
    (/\ obj # <<>> /\ obj[1].kind = "CodeBlock" /\ json # <<>>
     /\ Len(obj[1].args) <= 27
     /\ \A i \in DOMAIN obj[1].args : obj[1].args[i].slot = -1)
    => LET items == Get(json[1], "args").items
       IN  /\ \A i \in DOMAIN items : items[i].slot \in 0..26
           /\ \A i, j \in DOMAIN items : i # j => items[i].slot # items[j].slot

====
